---- MODULE Spec2Model ----
(***************************************************************************)
(* AutoClicker: the action tree (actions.rs), its recursive execution      *)
(* engine with cooperative cancellation, and the execution controller      *)
(* (main.rs: MyApp::start_thread, MyApp::stop_thread, MyApp::update).      *)
(*                                                                         *)
(* One worker thread per run; the main thread runs update() frame by       *)
(* frame.  Threads interleave at every access to shared memory (the        *)
(* cancellation flags, thread_running) and at every Input Port call.       *)
(***************************************************************************)
EXTENDS Integers, Sequences, FiniteSets, TLC

\* ---------------------------------------------------------------- bounds
MaxWorkers == 2   \* start_thread calls explored (one worker thread each)
MaxFlags == 4     \* cancellation flags allocated (one per stop_thread call)
MaxLog == 7       \* events recorded per run; later events set "full"

\* ------------------------------------------------------- the action model
\* enigo::Move tick of MoveAction::execute (let timestep_ms = 3)
timestep_ms == 3

\* actions.rs PressAction
Press(k, d, u, hold, after) ==
    [kind |-> "Press", keybutton |-> k, down |-> d, up |-> u,
     hold_time_ms |-> hold, delay_after_ms |-> after]

\* actions.rs MoveAction
Move(px, py, rel, mt, after) ==
    [kind |-> "Move", x |-> px, y |-> py, relative |-> rel,
     move_time_ms |-> mt, delay_after_ms |-> after]

\* actions.rs DelayAction
Delay(rnd, lo, hi) ==
    [kind |-> "Delay", random |-> rnd, delay_ms_min |-> lo, delay_ms_max |-> hi]

\* actions.rs LoopAction
Loop(inf, n, body) ==
    [kind |-> "Loop", infinite |-> inf, iterations |-> n, actions |-> body]

\* MyApp::default: the root the application starts with
DefaultRoot == Loop(TRUE, 1, <<>>)

Click(k) == Press(k, TRUE, TRUE, 2, 1)

\* The root trees the editor / a loaded file can hand to the controller.
Trees ==
    << DefaultRoot,
       Loop(TRUE, 0, <<Click("A")>>),
       Loop(TRUE, 0, <<Press("A", TRUE, FALSE, 0, 1), Delay(FALSE, 2, 0),
                       Press("A", FALSE, TRUE, 0, 1)>>),
       Loop(FALSE, 2, <<Loop(FALSE, 2, <<Click("B")>>), Delay(TRUE, 1, 3)>>),
       Loop(FALSE, 0, <<Click("A")>>),
       Loop(FALSE, 1, <<Loop(TRUE, 3, <<>>), Click("A"), Click("B"),
                        Press("A", FALSE, FALSE, 0, 1)>>),
       Loop(TRUE, 0, <<Loop(FALSE, 2, <<Loop(FALSE, 1, <<Click("A")>>)>>)>>),
       Loop(FALSE, 2, <<Loop(FALSE, 2, <<>>), Loop(TRUE, 0, <<Loop(TRUE, 0, <<>>)>>)>>),
       Loop(FALSE, 1, <<Move(2, -1, TRUE, 4, 1), Move(1, 1, FALSE, 0, 0)>>),
       Loop(FALSE, 1, <<Move(1, 0, TRUE, 0, 0), Delay(FALSE, 1, 0)>>),
       Loop(TRUE, 0, <<Press("A", FALSE, TRUE, 0, 1)>>)
    >>

\* the node of tree t reached by following the child indices in path p
RECURSIVE NodeAt(_, _)
NodeAt(t, p) ==
    IF p = <<>> THEN t ELSE NodeAt(t.actions[Head(p)], Tail(p))

\* ------------------------------------------------------------------ state
VARIABLES
    root_action,        \* MyApp.root_action: the editor's live tree
    start_thread,       \* MyApp.start_thread: pending start request
    stop_thread,        \* MyApp.stop_thread: pending stop request
    thread_running,     \* MyApp.thread_running (shared AtomicBool)
    thread_stop_signal, \* MyApp.thread_stop_signal: the flag the controller holds
    flags,              \* every Arc<AtomicBool> cancellation flag allocated so far
    workers,            \* the threads spawned by start_thread, in spawn order
    frame,              \* position of the main thread inside update()
    pointer,            \* the pointer position kept by the Input Port
    last_call,          \* history: the controller call made last
    lim,                \* the exploration limits fixed by the initial state
    disk,               \* the file picked in the Load / Save dialogs
    save_name,          \* MyApp.save_name
    io                  \* history: the outcome of the last load or save

\* what the persistence code reads and writes
store == <<disk, save_name, io>>

vars == <<root_action, start_thread, stop_thread, thread_running,
          thread_stop_signal, flags, workers, frame, pointer, last_call, lim,
          disk, save_name, io>>

\* one Input Port call or sleep, as observed from outside the engine
Ev(o, k, a, b) == [op |-> o, key |-> k, x |-> a, y |-> b]

\* locals of the interpolation loop of MoveAction::execute
NoMove == [x_rel |-> 0, y_rel |-> 0, time_passed_ms |-> 0,
           x_last_cycle |-> 0, y_last_cycle |-> 0]

\* the liveness specification keeps no history of what happened after the
\* stop signal (a log limit of 0 switches the history fields off)
Hist == lim.log > 0

\* activation record of one LoopAction::execute call
NewFrame(p) ==
    [path |-> p, i |-> 0, idx |-> 0, terminate |-> FALSE, pc |-> "while", setpasses |-> 0]

\* a thread that is handed the tree of the run before it
NewWorker_PreviousTree(t, sig) ==
    [tree |-> IF workers = <<>> THEN t ELSE workers[Len(workers)].tree,
     stop_signal |-> sig, st |-> "spawned", stack |-> <<>>,
     lp |-> 0, mv |-> NoMove, result |-> "none",
     ops |-> <<>>, trace |-> <<>>, full |-> FALSE, held |-> {},
     observed |-> FALSE, late |-> 0, latetop |-> 0,
     latepass |-> FALSE, fullpass |-> FALSE, startset |-> FALSE, latetick |-> 0,
     withstop |-> lim.frames /\ stop_thread]

\* the thread created by thread::spawn in start_thread, before it has run
NewWorker(t, sig) ==
    [tree |-> t, stop_signal |-> sig, st |-> "spawned", stack |-> <<>>,
     lp |-> 0, mv |-> NoMove, result |-> "none",
     ops |-> <<>>, trace |-> <<>>, full |-> FALSE, held |-> {},
     observed |-> FALSE, late |-> 0, latetop |-> 0,
     latepass |-> FALSE, fullpass |-> FALSE, startset |-> FALSE, latetick |-> 0,
     withstop |-> lim.frames /\ stop_thread]

Top(wk) == wk.stack[Len(wk.stack)]
SetTop(wk, f) == [wk EXCEPT !.stack = [@ EXCEPT ![Len(@)] = f]]
TopNode(wk) == NodeAt(wk.tree, Top(wk).path)
\* the action the for loop of the top frame is at
CurAction(wk) == TopNode(wk).actions[Top(wk).idx]

Emit(wk, e) == [wk EXCEPT !.ops = Append(@, e)]

\* ----------------------------------------------------- the execution engine
\* a returning loop that resumes the enclosing for loop without the flag check
Return_NoCheck(wk) ==
    LET rest == SubSeq(wk.stack, 1, Len(wk.stack) - 1) IN
    IF rest = <<>>
    THEN [wk EXCEPT !.stack = <<>>, !.result = "ok", !.st = "exit"]
    ELSE [wk EXCEPT !.stack = [rest EXCEPT ![Len(rest)].pc = "for",
                                           ![Len(rest)].idx = @ + 1]]

\* Ok(()) of LoopAction::execute (line 222): the call returns to the for loop
\* of the enclosing loop (line 207, then the flag check of line 208), or, for
\* the root loop, to the worker closure (main.rs line 61).
Return(wk) ==
    LET rest == SubSeq(wk.stack, 1, Len(wk.stack) - 1) IN
    IF rest = <<>>
    THEN [wk EXCEPT !.stack = <<>>, !.result = "ok", !.st = "exit"]
    ELSE [wk EXCEPT !.stack = [rest EXCEPT ![Len(rest)].pc = "check"]]

\* the `?` of a failed Input Port call: every enclosing execute returns the
\* error at once, up to the worker closure
Fail(wk, e) ==
    [Emit(wk, e) EXCEPT !.stack = <<>>, !.result = "err", !.st = "exit", !.lp = 0]

\* the leaf action returned Ok(()): back in the for loop, at the flag check
LeafDone(wk) ==
    [SetTop(wk, [Top(wk) EXCEPT !.pc = "check"]) EXCEPT !.lp = 0]

\* the end of a body pass without the exit for an empty infinite loop
PostFor_NoEmptyExit(wk) ==
    LET f == Top(wk)
        L == TopNode(wk)
    IN  IF ~L.infinite
        THEN SetTop(wk, [f EXCEPT !.i = f.i + 1, !.pc = "while"])
        ELSE SetTop(wk, [f EXCEPT !.pc = "while"])

\* LoopAction::execute lines 216-220, after the for loop ended or broke
PostFor(wk) ==
    LET f == Top(wk)
        L == TopNode(wk)
    IN  IF ~L.infinite
        THEN SetTop(wk, [f EXCEPT !.i = f.i + 1, !.pc = "while"])
        ELSE IF L.actions = <<>>
             THEN Return(wk)
             ELSE SetTop(wk, [f EXCEPT !.pc = "while"])

\* a while condition that runs one iteration too many
LoopWhile_OffByOne(wk) ==
    LET f == Top(wk)
        L == TopNode(wk)
    IN  IF (f.i <= L.iterations \/ L.infinite) /\ ~f.terminate
        THEN SetTop(wk, [f EXCEPT !.pc = "for", !.idx = 1])
        ELSE Return(wk)

\* LoopAction::execute line 205: the while condition
LoopWhile(wk) ==
    LET f == Top(wk)
        L == TopNode(wk)
    IN  IF (f.i < L.iterations \/ L.infinite) /\ ~f.terminate
        THEN SetTop(wk, [f EXCEPT !.pc = "for", !.idx = 1])
        ELSE Return(wk)

\* history kept when a leaf action is dispatched; fs is the value of the
\* run's cancellation flag at that moment
NoteLeaf(wk, fs) ==
    LET f == Top(wk) IN
    IF ~Hist THEN [wk EXCEPT !.ops = <<>>] ELSE
    [wk EXCEPT !.ops = <<>>,
               !.trace = IF Len(@) < lim.log THEN Append(@, Append(f.path, f.idx)) ELSE @,
               !.full = @ \/ Len(wk.trace) >= lim.log,
               !.late = IF fs /\ @ < 2 THEN @ + 1 ELSE @,
               !.startset = fs, !.latetick = 0]

\* history kept when the root loop dispatches a sub-action
NoteTop(wk, fs) ==
    IF Len(wk.stack) # 1 \/ ~Hist THEN wk
    ELSE [wk EXCEPT !.latetop = IF fs /\ @ < 2 THEN @ + 1 ELSE @,
                    !.latepass = IF Top(wk).idx = 1 THEN fs ELSE @]

\* LoopAction::execute lines 206-207: the for loop takes the next action of
\* the body and calls Action::execute (lines 259-264) on it
LoopFor(wk, fs) ==
    LET f == Top(wk)
        L == TopNode(wk)
    IN  IF f.idx > Len(L.actions)
        THEN PostFor(wk)
        ELSE IF L.actions[f.idx].kind = "Loop"
             THEN [NoteTop(wk, fs) EXCEPT
                     !.stack = Append(@, NewFrame(Append(f.path, f.idx)))]
             ELSE [SetTop(NoteLeaf(NoteTop(wk, fs), fs), [f EXCEPT !.pc = "leaf"])
                     EXCEPT !.lp = 0, !.mv = NoMove]

\* a flag check that is honoured only after the last action of the body
LoopCheck_PassEnd(wk, fs) ==
    LET f == Top(wk)
        g == [wk EXCEPT !.observed = @ \/ fs,
                        !.fullpass = @ \/ (Len(wk.stack) = 1 /\ wk.latepass
                                           /\ f.idx = Len(TopNode(wk).actions))]
    IN  IF fs /\ f.idx = Len(TopNode(wk).actions)
        THEN PostFor(SetTop(g, [f EXCEPT !.terminate = TRUE]))
        ELSE SetTop(g, [f EXCEPT !.idx = f.idx + 1, !.pc = "for"])

\* a flag check that reports cancellation as an error
LoopCheck_CancelIsError(wk, fs) ==
    LET f == Top(wk)
        g == [wk EXCEPT !.observed = @ \/ fs]
    IN  IF fs
        THEN [g EXCEPT !.stack = <<>>, !.result = "err", !.st = "exit"]
        ELSE SetTop(g, [f EXCEPT !.idx = f.idx + 1, !.pc = "for"])

\* a flag check after which the for loop advances by two actions
LoopCheck_SkipNext(wk, fs) ==
    LET f == Top(wk)
        g == [wk EXCEPT !.observed = @ \/ fs]
    IN  IF fs
        THEN PostFor(SetTop(g, [f EXCEPT !.terminate = TRUE]))
        ELSE SetTop(g, [f EXCEPT !.idx = f.idx + 2, !.pc = "for"])

\* LoopAction::execute lines 208-214: the flag is loaded after the sub-action
\* returned; fs is the value loaded
LoopCheck(wk, fs) ==
    LET f == Top(wk)
        g == [wk EXCEPT !.observed = @ \/ fs,
                        !.fullpass = @ \/ (Hist /\ Len(wk.stack) = 1 /\ wk.latepass
                                           /\ f.idx = Len(TopNode(wk).actions))]
    IN  IF fs
        THEN PostFor(SetTop(g, [f EXCEPT !.terminate = TRUE]))
        ELSE SetTop(g, [f EXCEPT !.idx = f.idx + 1, !.pc = "for"])

\* a press that drops the error of its first Input Port call and goes on
PressFirst_IgnoreError(wk, a, ok) ==
    LET k == a.keybutton
        called == a.down \/ a.up
        w0 == IF called /\ ~ok THEN Emit(wk, Ev("failed", k, 0, 0)) ELSE wk
        w1 == IF ~ok THEN w0
              ELSE IF a.down
                   THEN [Emit(wk, Ev("down", k, 0, 0)) EXCEPT !.held = @ \cup {k}]
                   ELSE IF a.up
                        THEN [Emit(wk, Ev("up", k, 0, 0)) EXCEPT !.held = @ \ {k}]
                        ELSE wk
    IN  IF a.down /\ a.up
        THEN [w1 EXCEPT !.lp = 1]
        ELSE LeafDone(Emit(w1, Ev("sleep", "-", a.delay_after_ms, 0)))

\* a press whose release is tested by `if` instead of `else if`
PressFirst_NoElse(wk, a, ok) ==
    LET k == a.keybutton
        called == a.down \/ a.up
        w1 == IF a.down
              THEN [Emit(wk, Ev("down", k, 0, 0)) EXCEPT !.held = @ \cup {k}]
              ELSE wk
        w2 == IF a.up
              THEN [Emit(w1, Ev("up", k, 0, 0)) EXCEPT !.held = @ \ {k}]
              ELSE w1
    IN  IF called /\ ~ok
        THEN Fail(wk, Ev("failed", k, 0, 0))
        ELSE IF a.down /\ a.up
             THEN [w2 EXCEPT !.lp = 1]
             ELSE LeafDone(Emit(w2, Ev("sleep", "-", a.delay_after_ms, 0)))

\* PressAction::execute lines 170-174: the first Input Port call, then either
\* the click continues (line 175) or the trailing sleep of line 179; ok is the
\* outcome of the Input Port call
PressFirst(wk, a, ok) ==
    LET k == a.keybutton
        called == a.down \/ a.up
        w1 == IF a.down
              THEN [Emit(wk, Ev("down", k, 0, 0)) EXCEPT !.held = @ \cup {k}]
              ELSE IF a.up
                   THEN [Emit(wk, Ev("up", k, 0, 0)) EXCEPT !.held = @ \ {k}]
                   ELSE wk
    IN  IF called /\ ~ok
        THEN Fail(wk, Ev("failed", k, 0, 0))
        ELSE IF a.down /\ a.up
             THEN [w1 EXCEPT !.lp = 1]
             ELSE LeafDone(Emit(w1, Ev("sleep", "-", a.delay_after_ms, 0)))

\* a click that sleeps the hold time and returns without the release
PressSecond_NoRelease(wk, a, ok) ==
    LeafDone(Emit(Emit(wk, Ev("sleep", "-", a.hold_time_ms, 0)),
                  Ev("sleep", "-", a.delay_after_ms, 0)))

\* PressAction::execute lines 175-180: hold, release, trailing sleep
PressSecond(wk, a, ok) ==
    LET k == a.keybutton
        w1 == Emit(wk, Ev("sleep", "-", a.hold_time_ms, 0))
    IN  IF ~ok
        THEN Fail(w1, Ev("failed", k, 0, 0))
        ELSE LeafDone(Emit([Emit(w1, Ev("up", k, 0, 0)) EXCEPT !.held = @ \ {k}],
                           Ev("sleep", "-", a.delay_after_ms, 0)))

\* PressAction::execute, one Input Port call at a time
PressExecute(wk, a, ok) ==
    IF wk.lp = 0 THEN PressFirst(wk, a, ok) ELSE PressSecond(wk, a, ok)

\* a random delay whose upper bound is inclusive
DelaySleeps_Inclusive(a) ==
    IF ~a.random \/ a.delay_ms_min >= a.delay_ms_max
    THEN {a.delay_ms_min}
    ELSE a.delay_ms_min .. a.delay_ms_max

\* DelayAction::execute lines 186-192: the durations it can sleep
DelaySleeps(a) ==
    IF ~a.random \/ a.delay_ms_min >= a.delay_ms_max
    THEN {a.delay_ms_min}
    ELSE a.delay_ms_min .. (a.delay_ms_max - 1)

\* DelayAction::execute sleeping d
DelayExecute(wk, d) == LeafDone(Emit(wk, Ev("sleep", "-", d, 0)))

\* MoveAction::execute lines 141-143 compute in IEEE-754 binary64, rounding to
\* the nearest value with a 53-bit significand (ties to even):
\*     factor = time_passed_ms as f64 / move_time_ms as f64
\*     x      = (x_rel as f64 * factor).floor() as i32
\* The operators below compute that result with integers, for 0 <= t <= T + 2,
\* 0 < T < 2^7 and |rel| < 2^9 (the conversions to f64 are exact there).

\* (2^n) mod T, for 0 <= n < 75
PowMod2(n, T) ==
    LET p == (2^15) % T
    IN  (((p^(n \div 15)) % T) * ((2^(n % 15)) % T)) % T

\* the binary exponent e of the quotient t / T: 2^-e <= t / T < 2^(1-e); its
\* significand has F64Exp + 52 bits after the binary point
F64Exp(t, T) ==
    CHOOSE e \in -1..12 :
        IF e >= 1 THEN T <= (2^e) * t /\ (2^(e - 1)) * t < T
        ELSE (2^(-e)) * T <= t /\ t < (2^(1 - e)) * T

\* the rounding error of the division line 141: factor is exactly
\* (2^F * t + F64DivErr) / (2^F * T) with F = F64Exp + 52; rho is the
\* remainder left by the 53 bits kept, odd the parity of the last bit kept
F64DivErr(t, T) ==
    LET F == F64Exp(t, T) + 52
        rho == (PowMod2(F, T) * (t % T)) % T
        odd == ((2 * ((PowMod2(F - 1, T) * (t % T)) % T)) \div T) % 2 = 1
        up == 2 * rho > T \/ (2 * rho = T /\ odd)
    IN  IF up THEN T - rho ELSE -rho

\* the g with 2^g <= n < 2^(g+1)
Log2Floor(n) == CHOOSE g \in 0..30 : 2^g <= n /\ n < 2^(g + 1)

\* MoveAction::execute lines 141-143: floor(rel * (time_passed / move_time)).
\* With k the floor of the exact rel * t / T: when rel * t / T is not an
\* integer the product lies more than 2^-40 away from every integer and its
\* floor is k; when it is the integer k, the product is k minus
\* lost / (2^F * T), which rounds to k unless that exceeds half the spacing
\* 2^(G-52) of the binary64 values next to k on the side of the product, and
\* then the floor is k - 1 (a tie goes to k, whose significand is even).
Interpolate(rel, t, T) ==
    LET k == (rel * t) \div T
        s == (rel * t) % T
    IN  IF s # 0 \/ k = 0 THEN k
        ELSE LET e == F64Exp(t, T)
                 lost == -rel * F64DivErr(t, T)
                 G == IF k > 0 THEN Log2Floor(2 * k - 1) - 1 ELSE Log2Floor(-k)
             IN  IF 8 * lost > T * 2^(e + G + 2) THEN k - 1 ELSE k

\* an interpolated move that reads the position but takes its coordinates
\* as the displacement
MoveFirst_Unresolved(wk, a, ok, pos) ==
    IF a.move_time_ms = 0
    THEN IF ~ok THEN Fail(wk, Ev("failed", "-", a.x, a.y))
         ELSE LeafDone(Emit(Emit(wk, Ev(IF a.relative THEN "moveRel" ELSE "moveAbs",
                                        "-", a.x, a.y)),
                            Ev("sleep", "-", a.delay_after_ms, 0)))
    ELSE IF a.relative
         THEN [wk EXCEPT !.lp = 1, !.mv = [NoMove EXCEPT !.x_rel = a.x, !.y_rel = a.y]]
         ELSE IF ~ok THEN Fail(wk, Ev("failed", "-", 0, 0))
              ELSE [Emit(wk, Ev("location", "-", pos.x, pos.y)) EXCEPT
                      !.lp = 1,
                      !.mv = [NoMove EXCEPT !.x_rel = a.x, !.y_rel = a.y]]

\* MoveAction::execute lines 119-134: the instantaneous move, or the
\* resolution of the displacement of an interpolated one; pos is the pointer
MoveFirst(wk, a, ok, pos) ==
    IF a.move_time_ms = 0
    THEN IF ~ok THEN Fail(wk, Ev("failed", "-", a.x, a.y))
         ELSE LeafDone(Emit(Emit(wk, Ev(IF a.relative THEN "moveRel" ELSE "moveAbs",
                                        "-", a.x, a.y)),
                            Ev("sleep", "-", a.delay_after_ms, 0)))
    ELSE IF a.relative
         THEN [wk EXCEPT !.lp = 1, !.mv = [NoMove EXCEPT !.x_rel = a.x, !.y_rel = a.y]]
         ELSE IF ~ok THEN Fail(wk, Ev("failed", "-", 0, 0))
              ELSE [Emit(wk, Ev("location", "-", pos.x, pos.y)) EXCEPT
                      !.lp = 1,
                      !.mv = [NoMove EXCEPT !.x_rel = a.x - pos.x, !.y_rel = a.y - pos.y]]

\* a tick whose sleep is never clamped to the remaining time
MoveTick_NoClamp(wk, a, ok) ==
    LET m == wk.mv
        T == a.move_time_ms
        x == Interpolate(m.x_rel, m.time_passed_ms, T)
        y == Interpolate(m.y_rel, m.time_passed_ms, T)
        dx == x - m.x_last_cycle
        dy == y - m.y_last_cycle
        w1 == Emit(wk, Ev("moveRel", "-", dx, dy))
    IN  IF ~ok THEN Fail(wk, Ev("failed", "-", dx, dy))
        ELSE IF m.time_passed_ms >= T
             THEN LeafDone(Emit(w1, Ev("sleep", "-", a.delay_after_ms, 0)))
             ELSE [Emit(w1, Ev("sleep", "-", timestep_ms, 0)) EXCEPT
                     !.mv = [m EXCEPT !.time_passed_ms = @ + timestep_ms,
                                      !.x_last_cycle = x, !.y_last_cycle = y]]

\* MoveAction::execute lines 140-160: one tick of the interpolation loop
MoveTick(wk, a, ok) ==
    LET m == wk.mv
        T == a.move_time_ms
        x == Interpolate(m.x_rel, m.time_passed_ms, T)
        y == Interpolate(m.y_rel, m.time_passed_ms, T)
        dx == x - m.x_last_cycle
        dy == y - m.y_last_cycle
        sleep_time == IF m.time_passed_ms + timestep_ms < T
                      THEN timestep_ms ELSE T - m.time_passed_ms
        w1 == Emit(wk, Ev("moveRel", "-", dx, dy))
    IN  IF ~ok THEN Fail(wk, Ev("failed", "-", dx, dy))
        ELSE IF m.time_passed_ms >= T
             THEN LeafDone(Emit(w1, Ev("sleep", "-", a.delay_after_ms, 0)))
             ELSE [Emit(w1, Ev("sleep", "-", sleep_time, 0)) EXCEPT
                     !.mv = [m EXCEPT !.time_passed_ms = @ + sleep_time,
                                      !.x_last_cycle = x, !.y_last_cycle = y]]

\* history kept for a step of MoveAction::execute: late holds when the step
\* issued the relative move of a tick while the run's flag was set
NoteTick(wk, late) ==
    [wk EXCEPT !.latetick = IF Hist /\ late /\ @ < 2 THEN @ + 1 ELSE @]

\* MoveAction::execute, one Input Port call at a time
MoveExecute(wk, a, ok, pos) ==
    IF wk.lp = 0 THEN MoveFirst(wk, a, ok, pos) ELSE MoveTick(wk, a, ok)

\* the pointer after the Input Port call of this step of MoveAction::execute
MovePointer(wk, a, ok, pos) ==
    IF ~ok THEN pos
    ELSE IF wk.lp = 0
         THEN IF a.move_time_ms # 0 THEN pos
              ELSE IF a.relative THEN [x |-> pos.x + a.x, y |-> pos.y + a.y]
                   ELSE [x |-> a.x, y |-> a.y]
         ELSE LET w1 == MoveTick(wk, a, TRUE)
                  e == w1.ops[Len(wk.ops) + 1]
              IN  [x |-> pos.x + e.x, y |-> pos.y + e.y]

\* ------------------------------------------------------ the worker thread
Running(w) == w \in 1..Len(workers) /\ workers[w].st = "exec"
AtPc(w, p) == Running(w) /\ Top(workers[w]).pc = p
AtLeaf(w, k) == AtPc(w, "leaf") /\ CurAction(workers[w]).kind = k
FlagOf(w) == flags[workers[w].stop_signal]

\* main.rs line 60-61: running.store(true), then the root loop is entered
Begin(w) ==
    /\ w \in 1..Len(workers) /\ workers[w].st = "spawned"
    /\ thread_running' = TRUE
    /\ workers' = [workers EXCEPT ![w] = [@ EXCEPT !.st = "exec",
                                                   !.stack = <<NewFrame(<<>>)>>]]
    /\ UNCHANGED <<root_action, start_thread, stop_thread, thread_stop_signal,
                   flags, frame, pointer, last_call, lim, store>>

\* history kept when the while condition of line 205 was evaluated; fs is the
\* value of the run's cancellation flag at that moment: setpasses counts the
\* iterations the loop has started while the flag was set
NoteWhile(wk, fs) ==
    IF Hist /\ fs /\ wk.stack # <<>> /\ Top(wk).pc = "for" /\ Top(wk).setpasses < 2
    THEN SetTop(wk, [Top(wk) EXCEPT !.setpasses = @ + 1])
    ELSE wk

StepWhile(w) ==
    /\ AtPc(w, "while")
    /\ workers' = [workers EXCEPT ![w] = NoteWhile(LoopWhile(@), FlagOf(w))]
    /\ UNCHANGED <<root_action, start_thread, stop_thread, thread_running,
                   thread_stop_signal, flags, frame, pointer, last_call, lim, store>>

StepFor(w) ==
    /\ AtPc(w, "for")
    /\ workers' = [workers EXCEPT ![w] = LoopFor(@, FlagOf(w))]
    /\ UNCHANGED <<root_action, start_thread, stop_thread, thread_running,
                   thread_stop_signal, flags, frame, pointer, last_call, lim, store>>

StepCheck(w) ==
    /\ AtPc(w, "check")
    /\ workers' = [workers EXCEPT ![w] = LoopCheck(@, FlagOf(w))]
    /\ UNCHANGED <<root_action, start_thread, stop_thread, thread_running,
                   thread_stop_signal, flags, frame, pointer, last_call, lim, store>>

StepPress(w) ==
    /\ AtLeaf(w, "Press")
    /\ \E ok \in BOOLEAN :
         workers' = [workers EXCEPT ![w] = PressExecute(@, CurAction(@), ok)]
    /\ UNCHANGED <<root_action, start_thread, stop_thread, thread_running,
                   thread_stop_signal, flags, frame, pointer, last_call, lim, store>>

StepDelay(w) ==
    /\ AtLeaf(w, "Delay")
    /\ \E d \in DelaySleeps(CurAction(workers[w])) :
         workers' = [workers EXCEPT ![w] = DelayExecute(@, d)]
    /\ UNCHANGED <<root_action, start_thread, stop_thread, thread_running,
                   thread_stop_signal, flags, frame, pointer, last_call, lim, store>>

StepMove(w) ==
    /\ AtLeaf(w, "Move")
    /\ \E ok \in BOOLEAN :
         /\ workers' = [workers EXCEPT ![w] =
                          NoteTick(MoveExecute(@, CurAction(@), ok, pointer),
                                   @.lp = 1 /\ ok /\ FlagOf(w))]
         /\ pointer' = MovePointer(workers[w], CurAction(workers[w]), ok, pointer)
    /\ UNCHANGED <<root_action, start_thread, stop_thread, thread_running,
                   thread_stop_signal, flags, frame, last_call, lim, store>>

\* main.rs lines 61-64: execute returned (an error is only printed), then
\* running.store(false)
Exit(w) ==
    /\ w \in 1..Len(workers) /\ workers[w].st = "exit"
    /\ thread_running' = FALSE
    /\ workers' = [workers EXCEPT ![w] = [@ EXCEPT !.st = "done"]]
    /\ UNCHANGED <<root_action, start_thread, stop_thread, thread_stop_signal,
                   flags, frame, pointer, last_call, lim, store>>

\* ---------------------------------------------------------- the controller
\* a stop that signals the current flag and clears the flags before it
StoppedFlags_ClearsOlder(fl, cur) == Append([n \in 1..Len(fl) |-> n = cur], FALSE)

\* a stop that rotates the flag without signalling the old one
StoppedFlags_NoSignal(fl, cur) == Append(fl, FALSE)

\* MyApp::stop_thread lines 69-70: the flags after store(true) on the current
\* flag and the allocation of a new, unset one
StoppedFlags(fl, cur) == Append([fl EXCEPT ![cur] = TRUE], FALSE)

\* a stop that signals the flag and goes on holding it
RotatedSignal_KeepsFlag(fl, cur) == cur

\* MyApp::stop_thread line 70: the flag the controller holds afterwards
RotatedSignal(fl, cur) == Len(fl) + 1

\* MyApp::stop_thread line 71: thread_running.store(false)
StoppedRunning(r) == FALSE

\* MyApp::update lines 121-213: the Start / Stop buttons and at most one
\* hotkey event raise the requests
FrameInput ==
    /\ frame = "ui"
    /\ \E sc \in BOOLEAN, pc \in BOOLEAN, hk \in {"none", "start", "stop", "other"} :
         LET st == sc \/ hk = "start"
             sp == pc \/ hk = "stop"
         IN  /\ Len(workers) + (IF st THEN 1 ELSE 0) <= lim.workers
             /\ Len(flags) + (IF st THEN 1 ELSE 0) + (IF sp THEN 1 ELSE 0) <= lim.flags
             /\ start_thread' = (start_thread \/ st)
             /\ stop_thread' = (stop_thread \/ sp)
    /\ frame' = "start"
    /\ UNCHANGED <<root_action, thread_running, thread_stop_signal, flags,
                   workers, pointer, last_call, lim, store>>

\* a frame that starts the run and leaves the start request raised
HandleStart_KeepsRequest ==
    /\ frame = "start"
    /\ IF start_thread
       THEN /\ flags' = StoppedFlags(flags, thread_stop_signal)
            /\ thread_stop_signal' = RotatedSignal(flags, thread_stop_signal)
            /\ thread_running' = StoppedRunning(thread_running)
            /\ workers' = Append(workers, NewWorker(root_action, thread_stop_signal'))
            /\ last_call' = "start"
       ELSE UNCHANGED <<flags, thread_stop_signal, thread_running, workers, last_call>>
    /\ frame' = "stop"
    /\ UNCHANGED <<root_action, start_thread, stop_thread, pointer, lim, store>>

\* MyApp::update lines 215-218 with MyApp::start_thread lines 53-66
HandleStart ==
    /\ frame = "start"
    /\ IF start_thread
       THEN /\ flags' = StoppedFlags(flags, thread_stop_signal)
            /\ thread_stop_signal' = RotatedSignal(flags, thread_stop_signal)
            /\ thread_running' = StoppedRunning(thread_running)
            /\ workers' = Append(workers, NewWorker(root_action, thread_stop_signal'))
            /\ last_call' = "start"
       ELSE UNCHANGED <<flags, thread_stop_signal, thread_running, workers, last_call>>
    /\ start_thread' = FALSE
    /\ frame' = "stop"
    /\ UNCHANGED <<root_action, stop_thread, pointer, lim, store>>

\* MyApp::update lines 219-222 with MyApp::stop_thread lines 68-72
HandleStop ==
    /\ frame = "stop"
    /\ IF stop_thread
       THEN /\ flags' = StoppedFlags(flags, thread_stop_signal)
            /\ thread_stop_signal' = RotatedSignal(flags, thread_stop_signal)
            /\ thread_running' = StoppedRunning(thread_running)
            /\ last_call' = "stop"
       ELSE UNCHANGED <<flags, thread_stop_signal, thread_running, last_call>>
    /\ stop_thread' = FALSE
    /\ frame' = "ui"
    /\ UNCHANGED <<root_action, start_thread, workers, pointer, lim, store>>

\* ------------------------------------------------------ persistence codec
\* The file content is the JSON text written by serde_json, kept as its
\* sequence of tokens (separators left out): punctuation, strings, numbers
\* and the literals true / false.
Punct(c) == [t |-> "punct", s |-> c, n |-> 0]
Str(x) == [t |-> "string", s |-> x, n |-> 0]
Num(k) == [t |-> "number", s |-> "", n |-> k]
Lit(b) == [t |-> "literal", s |-> IF b THEN "true" ELSE "false", n |-> 0]

\* #[derive(Serialize)] of KeyButton: a newtype variant holding a unit variant
EncKey(k) == <<Punct("{"), Str("KeyboardKey"), Str(k), Punct("}")>>

\* #[derive(Serialize)] of PressAction, MoveAction, DelayAction: a struct is
\* an object of its fields in declaration order
EncLeaf(a) ==
    IF a.kind = "Press"
    THEN <<Punct("{"), Str("keybutton")>> \o EncKey(a.keybutton)
         \o <<Str("down"), Lit(a.down), Str("up"), Lit(a.up),
              Str("hold_time_ms"), Num(a.hold_time_ms),
              Str("delay_after_ms"), Num(a.delay_after_ms), Punct("}")>>
    ELSE IF a.kind = "Move"
    THEN <<Punct("{"), Str("x"), Num(a.x), Str("y"), Num(a.y),
           Str("relative"), Lit(a.relative),
           Str("move_time_ms"), Num(a.move_time_ms),
           Str("delay_after_ms"), Num(a.delay_after_ms), Punct("}")>>
    ELSE <<Punct("{"), Str("random"), Lit(a.random),
           Str("delay_ms_min"), Num(a.delay_ms_min),
           Str("delay_ms_max"), Num(a.delay_ms_max), Punct("}")>>

\* #[derive(Serialize)] of LoopAction up to the elements of its Vec
LoopOpen(L) ==
    <<Punct("{"), Str("infinite"), Lit(L.infinite),
      Str("iterations"), Num(L.iterations), Str("actions"), Punct("[")>>
LoopClose == <<Punct("]"), Punct("}")>>

\* #[derive(Serialize)] of the enum Action, for the elements of a Vec: a
\* newtype variant is an object with the variant name as its single key
RECURSIVE EncActions(_)
EncActions(as) ==
    IF as # <<>> /\ Head(as).kind = "Loop"
    THEN (<<Punct("{"), Str("Loop")>> \o LoopOpen(Head(as)))
         \o (EncActions(Head(as).actions)
             \o (LoopClose \o <<Punct("}")>> \o EncActions(Tail(as))))
    ELSE IF as = <<>> THEN <<>>
         ELSE <<Punct("{"), Str(Head(as).kind)>> \o EncLeaf(Head(as))
              \o <<Punct("}")>> \o EncActions(Tail(as))

\* serde_json::to_vec(&self) in save_to_disk
to_vec(L) == LoopOpen(L) \o (EncActions(L.actions) \o LoopClose)

\* nesting depth at which serde_json's Deserializer gives up
\* (remaining_depth of the Deserializer built by serde_json::from_slice)
RecursionLimit == 128

Eof == [t |-> "eof", s |-> "", n |-> 0]
At(b, i) == IF i \in 1..Len(b) THEN b[i] ELSE Eof
Bad == [ok |-> FALSE, v |-> <<>>, pos |-> 0]
Good(val, p) == [ok |-> TRUE, v |-> val, pos |-> p]

IsBool(k) == k.t = "literal"
IsU64(k) == k.t = "number" /\ k.n >= 0
IsI32(k) == k.t = "number"

\* #[derive(Deserialize)] of PressAction, MoveAction and DelayAction from
\* position i with d levels of depth left: the object of the struct takes
\* one level and the object of the KeyButton inside it one more; the level
\* that would bring the count to zero is refused
DecPress(b, i, d) ==
    IF /\ At(b, i) = Punct("{") /\ d > 2
       /\ At(b, i + 1) = Str("keybutton")
       /\ At(b, i + 2) = Punct("{")
       /\ At(b, i + 3) = Str("KeyboardKey")
       /\ At(b, i + 4).t = "string"
       /\ At(b, i + 5) = Punct("}")
       /\ At(b, i + 6) = Str("down") /\ IsBool(At(b, i + 7))
       /\ At(b, i + 8) = Str("up") /\ IsBool(At(b, i + 9))
       /\ At(b, i + 10) = Str("hold_time_ms") /\ IsU64(At(b, i + 11))
       /\ At(b, i + 12) = Str("delay_after_ms") /\ IsU64(At(b, i + 13))
       /\ At(b, i + 14) = Punct("}")
    THEN Good(Press(At(b, i + 4).s, At(b, i + 7).s = "true", At(b, i + 9).s = "true",
                    At(b, i + 11).n, At(b, i + 13).n), i + 15)
    ELSE Bad
DecMove(b, i, d) ==
    IF /\ At(b, i) = Punct("{") /\ d > 1
       /\ At(b, i + 1) = Str("x") /\ IsI32(At(b, i + 2))
       /\ At(b, i + 3) = Str("y") /\ IsI32(At(b, i + 4))
       /\ At(b, i + 5) = Str("relative") /\ IsBool(At(b, i + 6))
       /\ At(b, i + 7) = Str("move_time_ms") /\ IsU64(At(b, i + 8))
       /\ At(b, i + 9) = Str("delay_after_ms") /\ IsU64(At(b, i + 10))
       /\ At(b, i + 11) = Punct("}")
    THEN Good(Move(At(b, i + 2).n, At(b, i + 4).n, At(b, i + 6).s = "true",
                   At(b, i + 8).n, At(b, i + 10).n), i + 12)
    ELSE Bad
DecDelay(b, i, d) ==
    IF /\ At(b, i) = Punct("{") /\ d > 1
       /\ At(b, i + 1) = Str("random") /\ IsBool(At(b, i + 2))
       /\ At(b, i + 3) = Str("delay_ms_min") /\ IsU64(At(b, i + 4))
       /\ At(b, i + 5) = Str("delay_ms_max") /\ IsU64(At(b, i + 6))
       /\ At(b, i + 7) = Punct("}")
    THEN Good(Delay(At(b, i + 2).s = "true", At(b, i + 4).n, At(b, i + 6).n), i + 8)
    ELSE Bad
DecLeaf(b, i, d, kind) ==
    IF kind = "Press" THEN DecPress(b, i, d)
    ELSE IF kind = "Move" THEN DecMove(b, i, d)
    ELSE IF kind = "Delay" THEN DecDelay(b, i, d)
    ELSE Bad

\* the fields of a LoopAction up to the opening of its Vec: its object and
\* the array take one level each
LoopHeadOk(b, i, d) ==
    /\ At(b, i) = Punct("{") /\ d > 2
    /\ At(b, i + 1) = Str("infinite") /\ IsBool(At(b, i + 2))
    /\ At(b, i + 3) = Str("iterations") /\ IsU64(At(b, i + 4))
    /\ At(b, i + 5) = Str("actions")
    /\ At(b, i + 6) = Punct("[")

\* #[derive(Deserialize)] of LoopAction (DecLoop) and of the elements of its
\* Vec<Action> (DecElems) by recursive descent; the object of an Action
\* variant takes one level
RECURSIVE DecLoop(_, _, _), DecElems(_, _, _, _)
DecLoop(b, i, d) ==
    IF LoopHeadOk(b, i, d)
    THEN LET r == DecElems(b, i + 7, d - 2, <<>>)
         IN  IF r.ok /\ At(b, r.pos) = Punct("}")
             THEN Good(Loop(At(b, i + 2).s = "true", At(b, i + 4).n, r.v), r.pos + 1)
             ELSE Bad
    ELSE Bad
DecElems(b, i, d, acc) ==
    IF At(b, i) = Punct("{") /\ d > 1 /\ At(b, i + 1).t = "string"
    THEN LET r == IF At(b, i + 1).s = "Loop" THEN DecLoop(b, i + 2, d - 1)
                  ELSE DecLeaf(b, i + 2, d - 1, At(b, i + 1).s)
         IN  IF r.ok /\ At(b, r.pos) = Punct("}")
             THEN DecElems(b, r.pos + 1, d, Append(acc, r.v))
             ELSE Bad
    ELSE IF At(b, i) = Punct("]") THEN Good(acc, i + 1)
         ELSE Bad

\* Some token of b lies inside RecursionLimit or more open objects and
\* arrays.  The descent refuses such an input when it reaches that token, if
\* it has not refused it before.
TooDeep(b) ==
    LET opens == {j \in 1..Len(b) : b[j].t = "punct" /\ b[j].s \in {"{", "["}}
        closes == {j \in 1..Len(b) : b[j].t = "punct" /\ b[j].s \in {"}", "]"}}
    IN  /\ Cardinality(opens) >= RecursionLimit
        /\ \E i \in opens :
              Cardinality({j \in opens : j <= i})
                - Cardinality({j \in closes : j < i}) >= RecursionLimit

\* serde_json::from_slice::<LoopAction>(&buf[..]) in load_from_disk: the
\* whole input must be one LoopAction (trailing tokens are an error)
from_slice(b) ==
    IF TooDeep(b) THEN Bad
    ELSE LET r == DecLoop(b, 1, RecursionLimit)
         IN  IF r.ok /\ r.pos = Len(b) + 1 THEN r ELSE Bad

\* ------------------------------------------------- load, save and editing
\* outcome of a load or save: where it stopped (history) and the
\* std::io::Error handed to the caller
Ok(o) == [op |-> o, ok |-> TRUE, stage |-> "", err |-> [kind |-> "", msg |-> ""]]
Err(o, st, e) == [op |-> o, ok |-> FALSE, stage |-> st, err |-> e]
NoIo == Ok("none")

\* an error of the operating system, as File::open, File::create,
\* read_to_end and write_all return it
OsError(k) == [kind |-> k, msg |-> ""]

\* a decode failure reported with the error of a failed read
DecodeError_AsRead == OsError("Uncategorized")

\* load_from_disk lines 241-244: Error::new(ErrorKind::Other, "Couldn't ...")
DecodeError ==
    [kind |-> "Other", msg |-> "Couldn't deserialize buf into a LoopAction"]

\* what the file system can do to a load: nothing, refuse the open, fail the read
LoadFaults ==
    { [stage |-> "none", kind |-> ""],
      [stage |-> "open", kind |-> "NotFound"],
      [stage |-> "open", kind |-> "PermissionDenied"],
      [stage |-> "read", kind |-> "Uncategorized"] }

\* a load that empties the tree before it decodes the bytes
load_from_disk_ClearFirst(self, bytes, fault) ==
    IF fault.stage # "none"
    THEN [self |-> self, res |-> Err("load", fault.stage, OsError(fault.kind))]
    ELSE LET r == from_slice(bytes)
         IN  IF r.ok THEN [self |-> r.v, res |-> Ok("load")]
             ELSE [self |-> Loop(FALSE, 0, <<>>),
                   res |-> Err("load", "decode", DecodeError)]

\* LoopAction::load_from_disk lines 232-250: self afterwards and the result
load_from_disk(self, bytes, fault) ==
    IF fault.stage # "none"
    THEN [self |-> self, res |-> Err("load", fault.stage, OsError(fault.kind))]
    ELSE LET r == from_slice(bytes)
         IN  IF r.ok THEN [self |-> r.v, res |-> Ok("load")]
             ELSE [self |-> self, res |-> Err("load", "decode", DecodeError)]

\* file_stem() of the path the dialogs return
FileStem == "save"

\* MyApp::update lines 137-151: the Load button with a file picked
FrameLoad ==
    /\ frame = "ui"
    /\ \E fault \in LoadFaults :
         LET r == load_from_disk(root_action, disk.bytes, fault)
         IN  /\ lim.faults \/ fault.stage = "none"
             /\ root_action' = r.self
             /\ save_name' = IF r.res.ok THEN FileStem ELSE save_name
             /\ io' = r.res
    /\ UNCHANGED <<start_thread, stop_thread, thread_running, thread_stop_signal,
                   flags, workers, frame, pointer, last_call, lim, disk>>

\* the lengths at which a failing write_all can leave the file
CutPoints(buf) == {0, 1, Len(buf) - 1}

\* LoopAction::save_to_disk lines 225-230: the file afterwards and the
\* result; File::create truncates, write_all may stop part way.  The field
\* "of" remembers the tree of a complete save (history).
save_to_disk(self, file, fault) ==
    LET buf == to_vec(self)
    IN  IF fault.stage = "create"
        THEN [file |-> file, res |-> Err("save", "create", OsError("PermissionDenied"))]
        ELSE IF fault.stage = "write"
        THEN [file |-> [bytes |-> SubSeq(buf, 1, fault.cut), of |-> <<>>],
              res |-> Err("save", "write", OsError("StorageFull"))]
        ELSE [file |-> [bytes |-> buf, of |-> <<self>>], res |-> Ok("save")]

\* MyApp::update lines 153-171: the Save button with a path chosen
FrameSave ==
    /\ frame = "ui"
    /\ \E fault \in {[stage |-> "none", cut |-> 0], [stage |-> "create", cut |-> 0]}
                    \cup {[stage |-> "write", cut |-> n] : n \in CutPoints(to_vec(root_action))} :
         LET r == save_to_disk(root_action, disk, fault)
         IN  /\ disk' = r.file
             /\ io' = r.res
    /\ UNCHANGED <<root_action, start_thread, stop_thread, thread_running,
                   thread_stop_signal, flags, workers, frame, pointer, last_call,
                   lim, save_name>>

\* actions the editor lets a loop grow to
MaxBody == 1

\* add_add_buttons lines 634-645: the action the Add Key Press button pushes
DefaultActions == {Press("None", TRUE, TRUE, 0, 1)}

\* the sequence s without its element at index n (Vec::remove)
Remove(s, n) == SubSeq(s, 1, n - 1) \o SubSeq(s, n + 1, Len(s))

\* MyApp::add_loop_action on the root loop: an Add button or the removal
\* of one action
FrameEdit ==
    /\ frame = "ui"
    /\ \/ /\ Len(root_action.actions) < MaxBody
          /\ \E a \in DefaultActions :
               root_action' = [root_action EXCEPT !.actions = Append(@, a)]
       \/ \E n \in 1..Len(root_action.actions) :
               root_action' = [root_action EXCEPT !.actions = Remove(@, n)]
    /\ UNCHANGED <<start_thread, stop_thread, thread_running, thread_stop_signal,
                   flags, workers, frame, pointer, last_call, lim, store>>

\* ---------------------------------------------------------- specifications
\* trees of the controller specification (indices into Trees)
CtlTrees == {1, 2, 5, 10}

\* leaf actions recorded per run in the controller specification
CtlLog == 1

InitThreads ==
    /\ start_thread = FALSE
    /\ stop_thread = FALSE
    /\ thread_running = FALSE
    /\ thread_stop_signal = 1
    /\ flags = <<FALSE>>
    /\ workers = <<>>
    /\ frame = "ui"
    /\ pointer = [x |-> 0, y |-> 0]
    /\ last_call = "none"

\* no load or save has been made; the file dialogs are not opened
InitStore ==
    /\ disk = [bytes |-> <<>>, of |-> <<>>]
    /\ save_name = ""
    /\ io = NoIo

InitCommon == InitThreads /\ InitStore

\* MyApp::default, then a tree built in the editor or loaded from a file
Init ==
    /\ InitCommon
    /\ root_action \in {Trees[n] : n \in CtlTrees}
    /\ lim = [workers |-> MaxWorkers, log |-> CtlLog, flags |-> MaxFlags, faults |-> TRUE,
           frames |-> FALSE]

\* the same application restricted to a single run, on every tree of Trees
InitRun ==
    /\ InitCommon
    /\ root_action \in {Trees[n] : n \in 1..Len(Trees)}
    /\ lim = [workers |-> 1, log |-> MaxLog, flags |-> MaxFlags, faults |-> TRUE,
           frames |-> FALSE]

Next ==
    \/ FrameInput
    \/ HandleStart
    \/ HandleStop
    \/ \E w \in 1..MaxWorkers + 1 :
         \/ Begin(w)
         \/ StepWhile(w)
         \/ StepFor(w)
         \/ StepCheck(w)
         \/ StepPress(w)
         \/ StepDelay(w)
         \/ StepMove(w)
         \/ Exit(w)

Spec == Init /\ [][Next]_vars

SpecRun == InitRun /\ [][Next]_vars

\* ------------------------------------------------------------- properties
Ws == 1..Len(workers)
Returned(wk) == wk.st \in {"exit", "done"}
\* some Input Port call of the run's last leaf action failed
PortFailed(wk) == \E n \in 1..Len(wk.ops) : wk.ops[n].op = "failed"
InfiniteNonEmpty(L) == L.infinite /\ L.actions # <<>>
InfiniteEmpty(L) == L.infinite /\ L.actions = <<>>

\* C1: at most one worker is inside its root loop execution at any time,
\* whatever start() and stop() calls were made.
C1_AtMostOneActiveWorker ==
    Cardinality({w \in Ws : workers[w].st = "exec"}) <= 1

\* C2: a run that returned because it observed its cancellation flag has
\* released every key or button it pressed.
C2_NoKeyLeftDownAfterCancel ==
    \A w \in Ws :
        (Returned(workers[w]) /\ workers[w].observed /\ ~PortFailed(workers[w]))
            => workers[w].held = {}

\* C3 as stated: an infinite root loop with a non-empty body returns only
\* after its flag was set, and no body pass that began after the flag was
\* set is executed in full.
C3_NoFullPassAfterFlag ==
    \A w \in Ws :
        (InfiniteNonEmpty(workers[w].tree) /\ ~PortFailed(workers[w]))
            => /\ Returned(workers[w]) => FlagOf(w)
               /\ ~workers[w].fullpass

\* C3 amended: an infinite root loop with a non-empty body returns only
\* after its flag was set, and once the flag is set it starts at most one
\* further action of its body.
C3_AtMostOneBodyActionAfterFlag ==
    \A w \in Ws :
        (InfiniteNonEmpty(workers[w].tree) /\ ~PortFailed(workers[w]))
            => /\ Returned(workers[w]) => FlagOf(w)
               /\ workers[w].latetop <= 1
               /\ Len(workers[w].tree.actions) > 1 => ~workers[w].fullpass

C3_Witness ==
    \E w \in Ws :
        /\ InfiniteNonEmpty(workers[w].tree)
        /\ Len(workers[w].tree.actions) > 1
        /\ workers[w].st = "done" /\ workers[w].result = "ok"
        /\ workers[w].latetop = 1

\* C4: once a flag check found the flag set, the run is only unwinding (the
\* loop it is in has terminate set or is at the flag check of an enclosing
\* loop), and at most one leaf action is started after the flag was set.
C4_StopsAtOnce ==
    \A w \in Ws :
        /\ workers[w].late <= 1
        /\ (workers[w].observed /\ workers[w].st = "exec")
              => \/ Top(workers[w]).pc = "check"
                 \/ Top(workers[w]).pc = "while" /\ Top(workers[w]).terminate

C4_Witness ==
    \E w \in Ws :
        /\ workers[w].observed /\ workers[w].st = "exec"
        /\ workers[w].late = 1
        /\ Len(workers[w].stack) = 2
        /\ Top(workers[w]).pc = "check"

\* the number of leaf actions an uncancelled run of action a executes
RECURSIVE Leaves(_), SumLeaves(_)
Leaves(a) ==
    IF a.kind # "Loop" THEN 1
    ELSE IF a.infinite THEN 0
         ELSE a.iterations * SumLeaves(a.actions)
SumLeaves(body) ==
    IF body = <<>> THEN 0 ELSE Leaves(Head(body)) + SumLeaves(Tail(body))

\* C5: a finite root loop whose flag was never set and whose Input Port calls
\* all succeeded returns success after executing its body exactly
\* `iterations` times (no action at all when iterations = 0).
C5_FiniteLoopRunsIterations ==
    \A w \in Ws :
        (Returned(workers[w]) /\ ~workers[w].tree.infinite /\ ~FlagOf(w)
            /\ ~PortFailed(workers[w]) /\ ~workers[w].full)
            => /\ workers[w].result = "ok"
               /\ Len(workers[w].trace) = Leaves(workers[w].tree)
               /\ workers[w].tree.iterations = 0 => workers[w].ops = <<>>

C5_Witness ==
    \E w \in Ws :
        /\ Returned(workers[w]) /\ ~FlagOf(w) /\ ~PortFailed(workers[w])
        /\ ~workers[w].tree.infinite /\ workers[w].tree.iterations = 2
        /\ Len(workers[w].trace) = 6

\* C6: a step of a run inside an infinite loop with an empty body never
\* loads the flag: the while condition enters the (empty) for loop, and the
\* loop then returns success to its caller, whatever the flag holds.
C6_InfiniteEmptyLoopReturns ==
    [][\A w \in Ws :
         (Running(w) /\ InfiniteEmpty(TopNode(workers[w]))
            /\ workers'[w] # workers[w])
            => \/ /\ Top(workers[w]).pc = "while"
                  /\ workers'[w].stack =
                        [workers[w].stack EXCEPT ![Len(workers[w].stack)].pc = "for",
                                                 ![Len(workers[w].stack)].idx = 1,
                                                 ![Len(workers[w].stack)].setpasses =
                                                     Top(workers'[w]).setpasses]
               \/ /\ Top(workers[w]).pc = "for"
                  /\ Len(workers'[w].stack) = Len(workers[w].stack) - 1
                  /\ workers'[w].observed = workers[w].observed
                  /\ IF Len(workers[w].stack) = 1
                     THEN workers'[w].st = "exit" /\ workers'[w].result = "ok"
                     ELSE Top(workers'[w]).pc = "check"]_vars

C6_Witness ==
    \E w \in Ws :
        /\ workers[w].st = "exec" /\ Len(workers[w].stack) = 1
        /\ Top(workers[w]).pc = "check"
        /\ CurAction(workers[w]).kind = "Loop"
        /\ InfiniteEmpty(CurAction(workers[w]))
        /\ CurAction(workers[w]).iterations = 3
        /\ FlagOf(w) /\ ~workers[w].observed

\* C7: after an Input Port call of a run failed, execute has returned the
\* error, the run issues no further Input Port call, and the only step the
\* worker still takes is the store of false into the running flag.
C7_FailureAborts ==
    [][\A w \in Ws :
         PortFailed(workers[w])
            => /\ workers[w].result = "err"
               /\ workers[w].stack = <<>>
               /\ Returned(workers[w])
               /\ workers'[w] # workers[w]
                    => /\ workers[w].st = "exit"
                       /\ workers'[w] = [workers[w] EXCEPT !.st = "done"]
                       /\ thread_running' = FALSE]_vars

C7_Witness ==
    \E w \in Ws :
        /\ PortFailed(workers[w]) /\ workers[w].st = "done"
        /\ workers[w].trace = << <<2>> >>
        /\ Len(workers[w].tree.actions) = 4
        /\ ~thread_running

\* C8: execute returns an error only if an Input Port call failed; a run that
\* returned after observing its flag returned success.
C8_CancelIsNotAnError ==
    \A w \in Ws :
        /\ workers[w].result = "err" => PortFailed(workers[w])
        /\ (Returned(workers[w]) /\ workers[w].observed /\ ~PortFailed(workers[w]))
              => workers[w].result = "ok"

C8_Witness ==
    \E w \in Ws :
        /\ workers[w].st = "done" /\ workers[w].observed
        /\ workers[w].result = "ok" /\ Len(workers[w].trace) > 0

\* C9: from the moment the worker of the most recent start() begins until it
\* completes or stop() is called, the running flag reads true.
C9_RunningWhileLatestRuns ==
    (Len(workers) > 0 /\ last_call = "start" /\ workers[Len(workers)].st = "exec")
        => thread_running

\* C10: after stop() and until the next start() the running flag reads false.
C10_NotRunningAfterStop ==
    last_call = "stop" => ~thread_running

\* ---------------------------------------------------------------- liveness
\* any step of worker thread w
WorkerStep(w) ==
    \/ Begin(w) \/ StepWhile(w) \/ StepFor(w) \/ StepCheck(w)
    \/ StepPress(w) \/ StepDelay(w) \/ StepMove(w) \/ Exit(w)

\* the operating system schedules every spawned thread again and again, and
\* every sleep and Input Port call returns
\* trees of the liveness specification (indices into Trees)
FairTrees == {10, 11}

InitFair ==
    /\ InitCommon
    /\ root_action \in {Trees[n] : n \in FairTrees}
    /\ lim = [workers |-> MaxWorkers, log |-> 0, flags |-> MaxWorkers + 2, faults |-> TRUE,
           frames |-> FALSE]

SpecFair ==
    InitFair /\ [][Next]_vars /\ \A w \in 1..MaxWorkers : WF_vars(WorkerStep(w))

AllDone == \A w \in Ws : workers[w].st = "done"

\* C11: after a stop(), unless a start() follows, every worker spawned so far
\* eventually terminates with the running flag false, and the flag then
\* stays false as long as no start() is made.
C11_StopIsLive ==
    /\ (last_call = "stop") ~> (last_call = "start" \/ (AllDone /\ ~thread_running))
    /\ [][(last_call = "stop" /\ AllDone /\ ~thread_running /\ last_call' = "stop")
             => (~thread_running' /\ workers' = workers)]_vars

C11_Witness ==
    /\ last_call = "stop" /\ AllDone /\ ~thread_running
    /\ Len(workers) = 2
    /\ \A w \in Ws : InfiniteNonEmpty(workers[w].tree) /\ workers[w].observed

\* ---------------------------------------------------------------- ordering
RECURSIVE Unroll(_, _), UnrollBody(_, _, _), Repeat(_, _)
\* s repeated k times
Repeat(s, k) == IF k = 0 THEN <<>> ELSE s \o Repeat(s, k - 1)
\* the depth-first, iteration-major unrolling of action a at path p, as the
\* list of the paths of the leaf actions; an infinite loop is unrolled far
\* enough to cover every recorded trace
Unroll(a, p) ==
    IF a.kind # "Loop" THEN <<p>>
    ELSE IF a.infinite
         THEN IF a.actions = <<>> THEN <<>>
              ELSE Repeat(UnrollBody(a.actions, p, 1), MaxLog + 2)
         ELSE Repeat(UnrollBody(a.actions, p, 1), a.iterations)
UnrollBody(acts, p, n) ==
    IF n > Len(acts) THEN <<>>
    ELSE Unroll(acts[n], Append(p, n)) \o UnrollBody(acts, p, n + 1)

IsPrefix(s, t) == Len(s) <= Len(t) /\ SubSeq(t, 1, Len(s)) = s

\* C12: the leaf actions a run has started so far are, in order, a prefix of
\* the depth-first, iteration-major unrolling of its tree, and a finite run
\* that was neither cancelled nor failed has executed the whole unrolling.
C12_DepthFirstOrder ==
    \A w \in Ws :
        /\ ~workers[w].observed
             => IsPrefix(workers[w].trace, Unroll(workers[w].tree, <<>>))
        /\ (Returned(workers[w]) /\ ~workers[w].tree.infinite /\ ~FlagOf(w)
              /\ ~PortFailed(workers[w]) /\ ~workers[w].full)
             => workers[w].trace = Unroll(workers[w].tree, <<>>)

C12_Witness ==
    \E w \in Ws :
        /\ workers[w].st = "done" /\ ~FlagOf(w) /\ ~PortFailed(workers[w])
        /\ workers[w].trace = << <<1, 1>>, <<1, 1>>, <<2>>, <<1, 1>>, <<1, 1>>, <<2>> >>

\* ------------------------------------------------------ single leaf actions
MaxDist == 3       \* largest coordinate of a MoveAction explored
MaxMoveTime == 7   \* largest move_time_ms explored
MaxDelay == 3      \* largest delay_ms_min / delay_ms_max explored

LeafMoves ==
    {Move(px, py, rel, mt, 1) :
        px \in -MaxDist..MaxDist, py \in {-2, 3}, rel \in BOOLEAN, mt \in 0..MaxMoveTime}
LeafPresses == {Press("A", d, u, 2, 1) : d \in BOOLEAN, u \in BOOLEAN}
LeafDelays ==
    {Delay(rnd, lo, hi) : rnd \in BOOLEAN, lo \in 0..MaxDelay, hi \in 0..MaxDelay}

\* the application with a root loop that runs one leaf action once, for every
\* leaf action of the sets above and two pointer positions; one run, no stop
InitLeaf ==
    /\ start_thread = FALSE
    /\ stop_thread = FALSE
    /\ thread_running = FALSE
    /\ thread_stop_signal = 1
    /\ flags = <<FALSE>>
    /\ workers = <<>>
    /\ frame = "ui"
    /\ last_call = "none"
    /\ pointer \in {[x |-> 0, y |-> 0], [x |-> 1, y |-> -2]}
    /\ \/ \E a \in LeafMoves : root_action = Loop(FALSE, 1, <<a>>)
       \/ \E a \in LeafPresses : root_action = Loop(FALSE, 1, <<a>>)
       \/ \E a \in LeafDelays : root_action = Loop(FALSE, 1, <<a>>)
    /\ lim = [workers |-> 1, log |-> MaxLog, flags |-> 2, faults |-> TRUE,
           frames |-> FALSE]
    /\ InitStore

SpecLeaf == InitLeaf /\ [][Next]_vars

\* the leaf action of kind k that worker w has just completed
DoneLeaf(w, k) ==
    /\ AtPc(w, "check")
    /\ CurAction(workers[w]).kind = k
OpsOf(wk, o) == SelectSeq(wk.ops, LAMBDA e : e.op = o)
RECURSIVE SumX(_), SumY(_)
SumX(es) == IF es = <<>> THEN 0 ELSE Head(es).x + SumX(Tail(es))
SumY(es) == IF es = <<>> THEN 0 ELSE Head(es).y + SumY(Tail(es))

\* C13: a completed interpolated move (move_time_ms = T > 0) has issued
\* relative moves that sum to its displacement D on each axis, and its tick
\* sleeps are all 3 ms except the last, which is T minus the time already
\* slept, so that they sum to T.
C13_MoveSumsExactly ==
    \A w \in Ws :
        (DoneLeaf(w, "Move") /\ CurAction(workers[w]).move_time_ms > 0)
          => LET a == CurAction(workers[w])
                 wk == workers[w]
                 T == a.move_time_ms
                 Dx == IF a.relative THEN a.x ELSE a.x - wk.ops[1].x
                 Dy == IF a.relative THEN a.y ELSE a.y - wk.ops[1].y
                 sl == OpsOf(wk, "sleep")
                 n == Len(sl) - 1
             IN  /\ SumX(OpsOf(wk, "moveRel")) = Dx
                 /\ SumY(OpsOf(wk, "moveRel")) = Dy
                 /\ n >= 1
                 /\ \A j \in 1..(n - 1) : sl[j].x = timestep_ms
                 /\ sl[n].x = T - timestep_ms * (n - 1)
                 /\ sl[n].x > 0
                 /\ SumX(SubSeq(sl, 1, n)) = T
                 /\ Len(OpsOf(wk, "moveRel")) = n + 1

C13_Witness ==
    \E w \in Ws :
        /\ DoneLeaf(w, "Move")
        /\ CurAction(workers[w]).move_time_ms = 5
        /\ ~CurAction(workers[w]).relative
        /\ CurAction(workers[w]).x = -3
        /\ workers[w].ops[1] = Ev("location", "-", 1, -2)
        /\ SumX(OpsOf(workers[w], "moveRel")) = -4

\* C14: when the flag is set while an interpolated move is in progress, at
\* most the tick in progress still issues its relative move.
C14_MoveStopsAtTick ==
    \A w \in Ws :
        (Running(w) /\ Top(workers[w]).pc \in {"leaf", "check"}
            /\ CurAction(workers[w]).kind = "Move" /\ ~workers[w].startset)
          => workers[w].latetick <= 1

\* C15: a completed DelayAction has slept delay_ms_min when random is false
\* or min >= max, and otherwise a duration d with min <= d < max.
C15_DelayRange ==
    \A w \in Ws :
        DoneLeaf(w, "Delay")
          => LET a == CurAction(workers[w])
                 d == workers[w].ops[1].x
             IN  /\ Len(workers[w].ops) = 1 /\ workers[w].ops[1].op = "sleep"
                 /\ IF ~a.random \/ a.delay_ms_min >= a.delay_ms_max
                    THEN d = a.delay_ms_min
                    ELSE a.delay_ms_min <= d /\ d < a.delay_ms_max

C15_Witness ==
    \E w \in Ws :
        /\ DoneLeaf(w, "Delay")
        /\ CurAction(workers[w]) = Delay(TRUE, 1, 3)
        /\ workers[w].ops[1].x = 2

\* C16: a completed PressAction has issued exactly: press, sleep hold,
\* release, sleep after (down and up); press, sleep after (down only);
\* release, sleep after (up only); sleep after (neither).
C16_PressSequences ==
    \A w \in Ws :
        DoneLeaf(w, "Press")
          => LET a == CurAction(workers[w])
                 k == a.keybutton
                 after == Ev("sleep", "-", a.delay_after_ms, 0)
             IN  workers[w].ops =
                   IF a.down /\ a.up
                   THEN <<Ev("down", k, 0, 0), Ev("sleep", "-", a.hold_time_ms, 0),
                          Ev("up", k, 0, 0), after>>
                   ELSE IF a.down THEN <<Ev("down", k, 0, 0), after>>
                   ELSE IF a.up THEN <<Ev("up", k, 0, 0), after>>
                   ELSE <<after>>

C16_Witness ==
    \E w \in Ws :
        /\ DoneLeaf(w, "Press")
        /\ CurAction(workers[w]).down /\ CurAction(workers[w]).up
        /\ Len(workers[w].ops) = 4

\* ------------------------------------------------ persistence (C17 - C19)
\* a root loop with k loops nested one inside the other below it
RECURSIVE Nest(_)
Nest(k) ==
    IF k = 0 THEN Loop(FALSE, 1, <<>>)
    ELSE [kind |-> "Loop", infinite |-> FALSE, iterations |-> 1,
          actions |-> <<Nest(k - 1)>>]

\* The root loop takes two levels of decoding depth (its object and its
\* array) and every nested loop three (variant, object, array): this many
\* nested loops reach the recursion limit.
DeepNest == (RecursionLimit - 2) \div 3

\* a tree of nesting depth 3 holding all four variants
Mixed ==
    Loop(FALSE, 2,
         <<Loop(TRUE, 0, <<Loop(FALSE, 1, <<Click("A"), Move(-1, 2, TRUE, 3, 0)>>),
                           Delay(TRUE, 1, 3)>>),
           Press("B", TRUE, FALSE, 0, 1)>>)

\* the trees saved and loaded
CodecTrees ==
    {DefaultRoot, Trees[4], Trees[9], Mixed, Nest(DeepNest)}

\* files that are not the encoding of a tree: empty, cut short, followed by
\* a stray token, holding a negative count, holding an unknown variant
BadFiles ==
    { <<>>,
      SubSeq(to_vec(Trees[2]), 1, 5),
      to_vec(DefaultRoot) \o <<Punct("}")>>,
      <<Punct("{"), Str("infinite"), Lit(TRUE), Str("iterations"), Num(-1),
        Str("actions"), Punct("["), Punct("]"), Punct("}")>>,
      <<Punct("{"), Str("infinite"), Lit(TRUE), Str("iterations"), Num(1),
        Str("actions"), Punct("["), Punct("{"), Str("Jump"), Punct("{"),
        Punct("}"), Punct("}"), Punct("]"), Punct("}")>> }

\* the file a complete save of tree t leaves behind
SavedFile(t) ==
    save_to_disk(t, [bytes |-> <<>>, of |-> <<>>], [stage |-> "none", cut |-> 0]).file

\* the application with its threads never started and some tree in the
\* editor; the file of the dialogs is a bad file or the save of some tree
InitCodec ==
    /\ InitThreads
    /\ root_action \in CodecTrees
    /\ \/ \E f \in BadFiles : disk = [bytes |-> f, of |-> <<>>]
       \/ \E t \in CodecTrees : disk = SavedFile(t)
    /\ save_name = ""
    /\ io = NoIo
    /\ lim = [workers |-> 0, log |-> 0, flags |-> 1, faults |-> TRUE,
           frames |-> FALSE]

NextCodec == FrameLoad \/ FrameSave

SpecCodec == InitCodec /\ [][NextCodec]_vars

\* C17: a load that fails (at open, at read or at decode) leaves the root
\* tree and the remembered save name exactly as they were.
C17_FailedLoadKeepsTree ==
    [][(FrameLoad /\ ~io'.ok)
          => (root_action' = root_action /\ save_name' = save_name)]_vars

\* a decode failure met with a non-empty tree and a remembered save name
C17_Witness ==
    /\ io.op = "load" /\ io.stage = "decode"
    /\ root_action.actions # <<>>
    /\ save_name = FileStem

\* C18: the error of a decode failure differs from the error of every open
\* or read failure of the load.
C18_DecodeErrorDistinct ==
    (io.op = "load" /\ ~io.ok)
        => (io.stage = "decode"
              <=> io.err \notin {OsError(f.kind) : f \in LoadFaults})

C18_Witness ==
    /\ io.op = "load" /\ ~io.ok /\ io.stage = "decode"
    /\ io.err.kind = "Other"
    /\ disk.bytes # <<>>

\* C19: loading the bytes of a complete save, with no failure of the file
\* system, succeeds and yields the saved tree, whatever tree it is loaded
\* into.
C19_RoundTrip ==
    [][(FrameLoad /\ disk.of # <<>> /\ io'.stage \notin {"open", "read"})
          => (io'.ok /\ root_action' = disk.of[1])]_vars

\* ------------------------------------------- editing while running (C20)
\* the application after it has loaded a saved tree; the tree is edited and
\* loaded again while runs are started and stopped (two controller calls, no
\* failure of the file system)
InitEdit ==
    /\ InitThreads
    /\ root_action = Loop(FALSE, 1, <<Move(1, 1, FALSE, 0, 0), Delay(FALSE, 1, 0)>>)
    /\ disk = SavedFile(root_action)
    /\ save_name = FileStem
    /\ io = Ok("load")
    /\ lim = [workers |-> 2, log |-> 0, flags |-> 3, faults |-> FALSE,
           frames |-> FALSE]

NextEdit == Next \/ FrameEdit \/ FrameLoad

SpecEdit == InitEdit /\ [][NextEdit]_vars

\* the key and button events of the leaf action in progress are those of
\* the action at the same place in the tree the run was started with
EventsOfSnapshot(wk) ==
    (wk.st = "exec" /\ Top(wk).pc \in {"leaf", "check"})
        => LET a == NodeAt(wk.tree, Top(wk).path).actions[Top(wk).idx]
           IN  a.kind # "Loop"
                 => \A n \in 1..Len(wk.ops) :
                      wk.ops[n].op \in {"down", "up"}
                          => (a.kind = "Press" /\ wk.ops[n].key = a.keybutton)

\* C20: no edit and no load changes the tree a started run executes, the
\* events of a run are those of its own tree, and every start() hands the
\* new run the root tree as it is at that start().
C20_RunsSnapshot ==
    /\ [](\A w \in Ws : EventsOfSnapshot(workers[w]))
    /\ [][/\ \A w \in Ws : workers'[w].tree = workers[w].tree
          /\ Len(workers') > Len(workers)
               => workers'[Len(workers')].tree = root_action]_vars

\* two runs with different trees, both having pressed keys, and the live
\* tree edited again since the second start
C20_Witness ==
    /\ Len(workers) = 2
    /\ workers[1].tree # workers[2].tree
    /\ root_action # workers[2].tree
    /\ \A w \in Ws : workers[w].st = "exec" /\ workers[w].ops # <<>>

\* ------------------------------------------------- flags of the runs (C21)
\* the controller specification on trees of key presses (the default empty
\* loop, an infinite and a zero-iteration loop of one click, an infinite loop
\* of one key release), with the runs stepping concurrently;
\* each run records whether a stop was pending in the frame that spawned it
CallTrees == {1, 2, 5, 11}

InitCalls ==
    /\ InitCommon
    /\ root_action \in {Trees[n] : n \in CallTrees}
    /\ lim = [workers |-> MaxWorkers, log |-> 0, flags |-> MaxFlags, faults |-> TRUE,
           frames |-> TRUE]

NextCalls ==
    \/ FrameInput
    \/ HandleStart
    \/ HandleStop
    \/ \E w \in 1..MaxWorkers + 1 :
         \/ Begin(w)
         \/ StepWhile(w)
         \/ StepFor(w)
         \/ StepCheck(w)
         \/ StepPress(w)
         \/ Exit(w)

SpecCalls == InitCalls /\ [][NextCalls]_vars

\* a call of MyApp::start_thread (through update) is this step
StartCall == frame = "start" /\ start_thread
\* a call of MyApp::stop_thread (through update) is this step
StopCall == frame = "stop" /\ stop_thread

\* C21: every run is spawned with a flag of its own that is unset at the
\* spawn and that no earlier start() or stop() has touched (it did not exist
\* before the start() that spawns the run); a run keeps its flag; and the
\* flag of a run goes from unset to set only in a step that is a stop() or a
\* start() call made while the run exists.
C21_OwnFreshFlag ==
    /\ [](\A v, w \in Ws : v # w => workers[v].stop_signal # workers[w].stop_signal)
    /\ [][/\ Len(workers') > Len(workers)
               => LET sig == workers'[Len(workers')].stop_signal
                  IN  /\ StartCall
                      /\ sig \notin DOMAIN flags
                      /\ sig \in DOMAIN flags' /\ ~flags'[sig]
                      /\ sig = thread_stop_signal'
          /\ \A w \in Ws :
               /\ workers'[w].stop_signal = workers[w].stop_signal
               /\ (~FlagOf(w) /\ flags'[workers[w].stop_signal])
                     => (StartCall \/ StopCall)]_vars

\* a first run started after two stop() calls made while idle: its flag is
\* unset and it executes
C21_Witness ==
    /\ Len(workers) = 1 /\ Len(flags) = 4
    /\ last_call = "start"
    /\ workers[1].st = "exec" /\ workers[1].ops # <<>>
    /\ ~flags[workers[1].stop_signal]

\* ------------------------------------- displacement of a timed move (C22)
\* the run executes a tree whose only action is an interpolated move
TimedMove(wk) ==
    /\ Len(wk.tree.actions) = 1
    /\ wk.tree.actions[1].kind = "Move"
    /\ wk.tree.actions[1].move_time_ms > 0

\* C22: an interpolated move (move_time_ms > 0) with relative = false reads
\* the pointer position exactly once, as its first Input Port call, issues
\* only relative moves, and with no other run moving the pointer ends with
\* the pointer at (x, y); with relative = true it never reads the position
\* and its moves sum to (x, y); the pointer moves by exactly the relative
\* moves issued; and when the position read fails no move is issued.
C22_ResolvedOnce ==
    /\ [](\A w \in Ws :
            TimedMove(workers[w])
              => LET wk == workers[w]
                     a == wk.tree.actions[1]
                     reads == {n \in 1..Len(wk.ops) : wk.ops[n].op = "location"}
                     moves == OpsOf(wk, "moveRel")
                 IN  /\ OpsOf(wk, "moveAbs") = <<>>
                     /\ a.relative => reads = {}
                     /\ ~a.relative
                          => /\ reads \subseteq {1}
                             /\ moves # <<>> => reads = {1}
                             /\ (wk.ops # <<>> /\ wk.ops[1].op = "failed")
                                  => (Len(wk.ops) = 1 /\ Returned(wk)
                                        /\ wk.result = "err")
                     /\ DoneLeaf(w, "Move")
                          => IF a.relative
                             THEN SumX(moves) = a.x /\ SumY(moves) = a.y
                             ELSE pointer = [x |-> a.x, y |-> a.y])
    /\ [][\A w \in Ws :
            TimedMove(workers[w])
              => LET old == workers[w].ops
                     new == workers'[w].ops
                     issued == IF Len(new) > Len(old)
                               THEN SelectSeq(SubSeq(new, Len(old) + 1, Len(new)),
                                              LAMBDA e : e.op = "moveRel")
                               ELSE <<>>
                 IN  pointer' = [x |-> pointer.x + SumX(issued),
                                 y |-> pointer.y + SumY(issued)]]_vars

\* an absolute interpolated move completed from the position (1, -2): the
\* position was read first, four relative moves followed and the pointer is
\* at the target
C22_Witness ==
    \E w \in Ws :
        /\ TimedMove(workers[w]) /\ DoneLeaf(w, "Move")
        /\ workers[w].tree.actions[1] = Move(-3, 3, FALSE, 7, 1)
        /\ workers[w].ops[1] = Ev("location", "-", 1, -2)
        /\ Len(OpsOf(workers[w], "moveRel")) = 4
        /\ pointer = [x |-> -3, y |-> 3]

\* ---------------------------------------- rounding of a timed move (C23)
MaxFar == 22       \* largest coordinate of the long moves explored
MaxFarTime == 22   \* largest move_time_ms of the long moves explored

FarMoves ==
    {Move(px, -px, TRUE, mt, 0) : px \in -MaxFar..MaxFar, mt \in 1..MaxFarTime}

\* the application with a root loop that runs one long relative interpolated
\* move once; one run
InitInterp ==
    /\ InitCommon
    /\ \E a \in FarMoves : root_action = Loop(FALSE, 1, <<a>>)
    /\ lim = [workers |-> 1, log |-> MaxLog, flags |-> 2, faults |-> TRUE,
           frames |-> FALSE]

NextInterp ==
    \/ FrameInput
    \/ HandleStart
    \/ HandleStop
    \/ \E w \in 1..MaxWorkers + 1 :
         \/ Begin(w)
         \/ StepWhile(w)
         \/ StepFor(w)
         \/ StepCheck(w)
         \/ StepMove(w)
         \/ Exit(w)

SpecInterp == InitInterp /\ [][NextInterp]_vars

\* the time slept by the move before its n-th event
ElapsedAt(wk, n) == SumX(OpsOf([wk EXCEPT !.ops = SubSeq(@, 1, n - 1)], "sleep"))
\* the displacement applied by the move up to and with its n-th event
AppliedAt(wk, n) ==
    LET mv == OpsOf([wk EXCEPT !.ops = SubSeq(@, 1, n)], "moveRel")
    IN  [x |-> SumX(mv), y |-> SumY(mv)]
\* c is the floor of D * t / T, less than one unit from it, and not beyond D
FloorOf(c, D, t, T) ==
    /\ c = (D * t) \div T
    /\ c * T <= D * t /\ D * t < (c + 1) * T
    /\ IF D >= 0 THEN 0 <= c /\ c <= D ELSE D <= c /\ c <= 0
\* d is zero or has the sign of D
SignOf(d, D) == d = 0 \/ (d > 0 /\ D > 0) \/ (d < 0 /\ D < 0)

\* C23: at every tick of an interpolated move, with t the time elapsed, the
\* displacement applied so far is floor(D * t / T) on each axis, less than
\* one unit from D * t / T and never beyond D, and the relative move of the
\* tick is zero or has the sign of D on each axis.
C23_FloorRounded ==
    \A w \in Ws :
        TimedMove(workers[w])
          => LET wk == workers[w]
                 a == wk.tree.actions[1]
                 T == a.move_time_ms
                 Dx == IF a.relative THEN a.x ELSE a.x - wk.ops[1].x
                 Dy == IF a.relative THEN a.y ELSE a.y - wk.ops[1].y
             IN  \A n \in 1..Len(wk.ops) :
                   wk.ops[n].op = "moveRel"
                     => /\ ElapsedAt(wk, n) <= T
                        /\ FloorOf(AppliedAt(wk, n).x, Dx, ElapsedAt(wk, n), T)
                        /\ FloorOf(AppliedAt(wk, n).y, Dy, ElapsedAt(wk, n), T)
                        /\ SignOf(wk.ops[n].x, Dx)
                        /\ SignOf(wk.ops[n].y, Dy)

\* ------------------------------------------- the flag at a body pass (C24)
\* C24: every loop observes a set flag before it starts another iteration:
\* no loop, whatever its body, starts two iterations while the flag is set.
C24_FlagSeenEachPass ==
    \A w \in Ws :
        \A d \in 1..Len(workers[w].stack) : workers[w].stack[d].setpasses <= 1

\* ------------------------------------------- flags are only ever set (C25)
\* C25: a flag that is set is never cleared and no flag is dropped; every
\* worker other than the one spawned by the most recent start() has its flag
\* set; and after a stop() every worker spawned so far has its flag set.
C25_FlagsMonotonic ==
    /\ [][/\ Len(flags') >= Len(flags)
          /\ \A n \in 1..Len(flags) : flags[n] => flags'[n]]_vars
    /\ [](\A w \in Ws : w < Len(workers) => FlagOf(w))
    /\ [](last_call = "stop" => \A w \in Ws : FlagOf(w))

\* two runs still executing after start(), start(), stop(): both flags set,
\* the controller's own flag is a third, unset one
C25_Witness ==
    /\ Len(workers) = 2 /\ last_call = "stop"
    /\ \A w \in Ws : workers[w].st = "exec" /\ FlagOf(w)
    /\ workers[1].stop_signal < workers[2].stop_signal
    /\ ~flags[thread_stop_signal]

\* ------------------------------------------------ a click is atomic (C26)
\* worker w has issued the press of a click and not yet its release
MidClick(w) == AtLeaf(w, "Press") /\ workers[w].lp = 1

\* C26: a run is between the press and the release of a click only for a
\* PressAction with down and up whose press succeeded; there the release
\* call can be taken whatever the flag; and the next step of that run is
\* that call, with no load of the flag: it issues hold sleep, release and
\* trailing sleep, leaving the key up, or it fails, and only then the run
\* returns with the key down.
C26_ClickNotSplit ==
    /\ [](\A w \in Ws :
            MidClick(w)
              => LET a == CurAction(workers[w])
                 IN  /\ a.down /\ a.up
                     /\ workers[w].ops = <<Ev("down", a.keybutton, 0, 0)>>
                     /\ a.keybutton \in workers[w].held
                     /\ ENABLED StepPress(w))
    /\ [][\A w \in Ws :
            (MidClick(w) /\ workers'[w] # workers[w])
              => LET a == CurAction(workers[w])
                     k == a.keybutton
                     begun == <<Ev("down", k, 0, 0), Ev("sleep", "-", a.hold_time_ms, 0)>>
                 IN  /\ workers'[w].observed = workers[w].observed
                     /\ \/ /\ workers'[w].ops =
                                begun \o <<Ev("up", k, 0, 0),
                                           Ev("sleep", "-", a.delay_after_ms, 0)>>
                           /\ k \notin workers'[w].held
                           /\ workers'[w].st = "exec"
                        \/ /\ workers'[w].ops = begun \o <<Ev("failed", k, 0, 0)>>
                           /\ workers'[w].st = "exit"
                           /\ workers'[w].result = "err"]_vars

\* a click dispatched and completed while the flag of its run was set
C26_Witness ==
    \E w \in Ws :
        /\ DoneLeaf(w, "Press")
        /\ CurAction(workers[w]).down /\ CurAction(workers[w]).up
        /\ workers[w].startset /\ FlagOf(w)
        /\ Len(workers[w].ops) = 4
        /\ workers[w].ops[3] = Ev("up", CurAction(workers[w]).keybutton, 0, 0)
        /\ workers[w].held = {}

\* ------------------------------------- start and stop in one frame (C27)
\* C27: in a frame the start request is handled and cleared before the stop
\* request, which is still pending while the start is handled; no request is
\* pending when the frame has ended, and only the input phase of a frame
\* raises one; handling a stop stores false in the running flag; and a
\* worker spawned in a frame in which a stop was pending too has its flag
\* set from the end of that frame on.
C27_StartThenStop ==
    /\ [](frame = "ui" => ~start_thread /\ ~stop_thread)
    /\ [](frame = "stop" => ~start_thread)
    /\ [](\A w \in Ws :
            workers[w].withstop
              => \/ FlagOf(w)
                 \/ frame = "stop" /\ stop_thread /\ w = Len(workers))
    /\ [][/\ (frame = "start" /\ frame' # frame)
               => /\ frame' = "stop" /\ ~start_thread'
                  /\ stop_thread' = stop_thread
                  /\ Len(workers') = Len(workers) + (IF start_thread THEN 1 ELSE 0)
          /\ (frame = "stop" /\ frame' # frame)
               => /\ frame' = "ui" /\ ~stop_thread'
                  /\ workers' = workers
                  /\ IF stop_thread
                     THEN ~thread_running' /\ \A w \in Ws : flags'[workers[w].stop_signal]
                     ELSE flags' = flags
          /\ frame' = frame
               => /\ start_thread' = start_thread /\ stop_thread' = stop_thread
                  /\ Len(workers') = Len(workers) /\ flags' = flags]_vars

\* the frame in which Start and Stop were both requested has ended: the
\* worker it spawned has not begun, its flag is set and the running flag
\* reads false
C27_Witness ==
    /\ frame = "ui" /\ last_call = "stop" /\ ~thread_running
    /\ \E w \in Ws :
         /\ workers[w].withstop /\ workers[w].st = "spawned"
         /\ FlagOf(w) /\ w = Len(workers)

====
